---- MODULE Spec2Model ----
(***************************************************************************)
(* csv-validator: the CLI workflow (CLI.run and its helpers), the pydantic *)
(* field types of csv_validator.model, models/cluster_registry.py and      *)
(* models/example_model.py, and the helper validators of                   *)
(* csv_validator.helpers, as a state machine.                              *)
(*                                                                         *)
(* Spec follows whole runs of CLI.run in one process.  RowSpec follows     *)
(* single calls of _validate_csv_row, of the field types and of the helper *)
(* functions.  ReaderSpec follows the line numbers of the csv.DictReader.  *)
(*                                                                         *)
(* A Python str is a sequence of one-character strings.  Python's None is  *)
(* the sentinel sequence None, whose only element is no character.         *)
(***************************************************************************)
EXTENDS Integers, Sequences, FiniteSets, TLC

\* ---------------------------------------------------------------- bounds
\* data rows the reader delivers in one run, at most
MaxRows == 2
\* CLI.run calls made one after the other in one process, at most
MaxSessions == 2
\* comma-separated tokens in a cell of a set-valued column, at most
MaxTokens == 2
\* characters in a string passed to a coercion function on its own, at most
MaxLen == 3
\* blank lines in front of a record of the source file, at most
MaxBlank == 1
\* physical lines one record of the source file takes (line breaks inside
\* quoted fields), at most
MaxSpan == 2

\* ------------------------------------------------------ program constants
\* StringConstraints(min_length=1, max_length=30) of ClusterName
MinLength == 1
MaxLength == 30

None == << "<None>" >>

Range(s) == { s[i] : i \in 1..Len(s) }

\* ------------------------------------------------------------ str methods
Whitespace == { " " }

RECURSIVE LStrip(_)
LStrip(s) == IF s # << >> /\ Head(s) \in Whitespace THEN LStrip(Tail(s)) ELSE s

RECURSIVE RStrip(_)
RStrip(s) ==
    IF s # << >> /\ s[Len(s)] \in Whitespace
    THEN RStrip(SubSeq(s, 1, Len(s) - 1))
    ELSE s

\* str.strip()
Strip(s) == RStrip(LStrip(s))

LowerChar(c) == CASE c = "A" -> "a" [] c = "B" -> "b" [] OTHER -> c

\* str.lower()
Lower(s) == [ i \in 1..Len(s) |-> LowerChar(s[i]) ]

\* s.split(','): the sequence of the (possibly empty) pieces between commas
RECURSIVE SplitFrom(_, _, _)
SplitFrom(s, i, cur) ==
    IF i > Len(s) THEN << cur >>
    ELSE IF s[i] = "," THEN << cur >> \o SplitFrom(s, i + 1, << >>)
    ELSE SplitFrom(s, i + 1, Append(cur, s[i]))

Split(s) == SplitFrom(s, 1, << >>)

\* ",".join(seq of str)
RECURSIVE Join(_)
Join(ss) ==
    IF ss = << >> THEN << >>
    ELSE IF Len(ss) = 1 THEN ss[1]
    ELSE ss[1] \o << "," >> \o Join(Tail(ss))

\* the orders in which iterating a set can yield its members
Orderings(S) ==
    { p \in [ 1..Cardinality(S) -> S ] : \A x \in S : \E i \in DOMAIN p : p[i] = x }

\* ------------------------------------------------------------- values
\* a validated field value: None, a str, or a set of str
NoneVal == [ kind |-> "none", s |-> << >>, m |-> { } ]
StrVal(s) == [ kind |-> "str", s |-> s, m |-> { } ]
SetVal(m) == [ kind |-> "set", s |-> << >>, m |-> m ]

\* a Python object is truthy unless it is None, '' or an empty set
Truthy(v) ==
    CASE v.kind = "none" -> FALSE
      [] v.kind = "str" -> v.s # << >>
      [] OTHER -> v.m # { }

\* a raw cell as the reader hands it over: a str, or None (restval)
RawVal(raw) == IF raw = None THEN NoneVal ELSE StrVal(raw)

\* --------------------------------------------------------------- helpers.py
\* coerce_splt_commas_rtn_set_strs
coerce_splt_commas_rtn_set_strs(v) ==
    IF Truthy(v)
    THEN SetVal({ Strip(e) : e \in { t \in Range(Split(v.s)) : t # << >> } })
    ELSE NoneVal

\* coerce_empty_str_to_none
coerce_empty_str_to_none(v) == IF Truthy(v) THEN v ELSE NoneVal

\* unique().nested: whether the ValueError is raised for v, given the closure's seen
nested_raises(v, seenSet) == v \in seenSet

\* unique().nested: the closure's seen after the call
nested_seen(v, seenSet) == IF v \in seenSet THEN seenSet ELSE seenSet \cup { v }

\* ----------------------------------------------------------- field types
Digits == { "0", "1", "2", "3", "4", "5", "6", "7", "8", "9" }

\* re pattern '^[0-9]*[hms]$' of SyncInterval
MatchesInterval(s) ==
    /\ s # << >>
    /\ s[Len(s)] \in { "h", "m", "s" }
    /\ \A i \in 1..(Len(s) - 1) : s[i] \in Digits

\* what validating one field gives: the error type ("" if none), the value, the
\* closure's seen afterwards, and for an error in the members of a set the
\* members that failed
Ok(val, seenSet) == [ err |-> "", val |-> val, seen |-> seenSet, items |-> { } ]
Err(type, seenSet) == [ err |-> type, val |-> NoneVal, seen |-> seenSet, items |-> { } ]

\* StrippedStr = Annotated[str, StringConstraints(strict=True, strip_whitespace=True)]
StrippedStr(v, seenSet) ==
    IF v.kind # "str" THEN Err("string_type", seenSet)
    ELSE Ok(StrVal(Strip(v.s)), seenSet)

\* OptionalStrippedStr: Optional[StrippedStr] behind coerce_empty_str_to_none
OptionalStrippedStr(v, seenSet) ==
    IF coerce_empty_str_to_none(v).kind = "none" THEN Ok(NoneVal, seenSet)
    ELSE StrippedStr(coerce_empty_str_to_none(v), seenSet)

\* mutant: unique() applied to the raw string, before the constraints
ClusterName_raw(v, seenSet) ==
    IF v.kind # "str" THEN Err("string_type", seenSet)
    ELSE IF nested_raises(v.s, seenSet) THEN Err("not_unique", seenSet)
    ELSE IF Len(Strip(v.s)) < MinLength THEN Err("string_too_short", nested_seen(v.s, seenSet))
    ELSE IF Len(Strip(v.s)) > MaxLength THEN Err("string_too_long", nested_seen(v.s, seenSet))
    ELSE Ok(StrVal(Lower(Strip(v.s))), nested_seen(v.s, seenSet))

\* mutant: ClusterName declared without min_length
ClusterName_nomin(v, seenSet) ==
    IF v.kind # "str" THEN Err("string_type", seenSet)
    ELSE IF Len(Strip(v.s)) > MaxLength THEN Err("string_too_long", seenSet)
    ELSE IF nested_raises(Lower(Strip(v.s)), seenSet) THEN Err("not_unique", seenSet)
    ELSE Ok(StrVal(Lower(Strip(v.s))), nested_seen(Lower(Strip(v.s)), seenSet))

\* ClusterName: strict, stripped, length 1..30, lower-cased, then unique()
ClusterName(v, seenSet) ==
    IF v.kind # "str" THEN Err("string_type", seenSet)
    ELSE IF Len(Strip(v.s)) < MinLength THEN Err("string_too_short", seenSet)
    ELSE IF Len(Strip(v.s)) > MaxLength THEN Err("string_too_long", seenSet)
    ELSE IF nested_raises(Lower(Strip(v.s)), seenSet) THEN Err("not_unique", seenSet)
    ELSE Ok(StrVal(Lower(Strip(v.s))), nested_seen(Lower(Strip(v.s)), seenSet))

\* a plain `str` annotation (cluster_group): any str passes unchanged
PlainStr(v, seenSet) ==
    IF v.kind # "str" THEN Err("string_type", seenSet) ELSE Ok(v, seenSet)

\* ClusterTags: Optional[set[str]]; the BeforeValidators run last-listed first
ClusterTags(v, seenSet) ==
    Ok(coerce_empty_str_to_none(coerce_splt_commas_rtn_set_strs(v)), seenSet)

\* SyncInterval (models/cluster_registry.py): Optional[StrippedStr] with a pattern
SyncInterval(v, seenSet) ==
    IF coerce_empty_str_to_none(v).kind = "none" THEN Ok(NoneVal, seenSet)
    ELSE IF v.kind # "str" THEN Err("string_type", seenSet)
    ELSE IF ~MatchesInterval(Strip(v.s)) THEN Err("string_pattern_mismatch", seenSet)
    ELSE Ok(StrVal(Strip(v.s)), seenSet)

\* models/example_model.py: the values of the enum Tag
Tag ==
    { << "p", "r", "o", "d" >>, << "n", "o", "n", "p", "r", "o", "d" >>,
      << "l", "a", "b" >>,
      << "d", "o", "n", "o", "t", "u", "p", "g", "r", "a", "d", "e" >>,
      << "c", "o", "r", "p" >>, << "f", "r", "a", "n", "c", "h", "i", "s", "e" >> }

\* models/example_model.py: the values of the enum Group
Group == { << "u", "s", "-", "l", "a", "b" >>, << "u", "s" >>, << "c", "a" >>, << "m", "x" >> }

\* cluster_group: Group of NewBase: a str that is the value of a member
GroupType(v, seenSet) ==
    IF v.kind = "str" /\ v.s \in Group THEN Ok(v, seenSet) ELSE Err("enum", seenSet)

\* ValidTag = Annotated[set[Tag], BeforeValidator(coerce_splt_commas_rtn_set_strs)]:
\* the set validator checks every member and reports each member that fails
ValidTag(v, seenSet) ==
    LET c == coerce_splt_commas_rtn_set_strs(v)
    IN IF c.kind # "set" THEN Err("set_type", seenSet)
       ELSE IF c.m \subseteq Tag THEN Ok(c, seenSet)
       ELSE [ err |-> "enum", val |-> NoneVal, seen |-> seenSet, items |-> c.m \ Tag ]

ValidateType(type, v, seenSet) ==
    CASE type = "ClusterName" -> ClusterName(v, seenSet)
      [] type = "Group" -> GroupType(v, seenSet)
      [] type = "ValidTag" -> ValidTag(v, seenSet)
      [] type = "str" -> PlainStr(v, seenSet)
      [] type = "ClusterTags" -> ClusterTags(v, seenSet)
      [] type = "StrippedStr" -> StrippedStr(v, seenSet)
      [] type = "OptionalStrippedStr" -> OptionalStrippedStr(v, seenSet)
      [] OTHER -> SyncInterval(v, seenSet)

\* ------------------------------------------------------------- the models
Field(name, type, required) == [ name |-> name, type |-> type, required |-> required ]

\* BaseCluster.model_fields, in declaration order
BaseCluster ==
    << Field("cluster_name", "ClusterName", TRUE),
       Field("cluster_group", "str", TRUE),
       Field("cluster_tags", "ClusterTags", TRUE) >>

\* models/cluster_registry.py SourceOfTruthModel(BaseCluster).model_fields
ClusterRegistryModel ==
    BaseCluster \o
    << Field("platform_repository", "StrippedStr", TRUE),
       Field("platform_repository_revision", "StrippedStr", TRUE),
       Field("platform_repository_sync_interval", "SyncInterval", FALSE),
       Field("platform_repository_branch", "OptionalStrippedStr", FALSE),
       Field("workload_repository", "StrippedStr", TRUE),
       Field("workload_repository_revision", "StrippedStr", TRUE),
       Field("workload_repository_sync_interval", "SyncInterval", FALSE),
       Field("workload_repository_branch", "OptionalStrippedStr", FALSE) >>

\* models/example_model.py NewBase(BaseCluster).model_fields
NewBase ==
    << Field("cluster_name", "ClusterName", TRUE),
       Field("cluster_group", "Group", TRUE),
       Field("cluster_tags", "ValidTag", TRUE) >>

model_fields(m) ==
    CASE m = "cluster_registry" -> ClusterRegistryModel
      [] m = "NewBase" -> NewBase
      [] OTHER -> BaseCluster

FieldNames(m) == { model_fields(m)[i].name : i \in 1..Len(model_fields(m)) }

\* ------------------------------------------------------- csv.DictReader
\* the dict DictReader builds from one record: the header's names zipped with
\* the cells (a repeated name keeps its last cell), cells beyond the header
\* under the key None (restkey), names beyond the cells mapped to None (restval)
LastIndex(header, name) ==
    CHOOSE i \in 1..Len(header) :
        /\ header[i] = name
        /\ \A j \in (i + 1)..Len(header) : header[j] # name

DictRow(header, cells) ==
    [ keys |-> Range(header),
      val |-> [ k \in Range(header) |->
                  IF LastIndex(header, k) <= Len(cells)
                  THEN cells[LastIndex(header, k)]
                  ELSE None ],
      rest |-> Len(cells) > Len(header) ]

\* ------------------------------------------------------- pydantic model
\* self._model(**row) once the keywords are accepted: every field is validated
\* in model_fields order (the closure's seen threaded through), a key that is
\* no field is an extra_forbidden error, a field without key is missing or
\* takes its default None
\* mutant: validation of a set stops at its first member that fails
FieldErrors_first(name, r) ==
    IF r.err = "" THEN { }
    ELSE IF r.items = { } THEN { << name, r.err >> }
    ELSE { << name, r.err, CHOOSE t \in r.items : TRUE >> }

\* the errors pydantic reports for one field, as << loc[0], type >>, or
\* << loc[0], type, member >> for each member of a set that failed
FieldErrors(name, r) ==
    IF r.err = "" THEN { }
    ELSE IF r.items = { } THEN { << name, r.err >> }
    ELSE { << name, r.err, t >> : t \in r.items }

\* mutant: a field without keyword is validated as if it were the empty string
MissingField_empty(f, seenSet) == ValidateType(f.type, StrVal(<< >>), seenSet)

\* a field for which the row has no keyword: 'Field required' when it has no
\* default, else its default None (not validated)
MissingField(f, seenSet) ==
    IF f.required THEN Err("missing", seenSet) ELSE Ok(NoneVal, seenSet)

RECURSIVE ValidateFields(_, _, _, _)
ValidateFields(fields, i, row, acc) ==
    IF i > Len(fields) THEN acc
    ELSE LET f == fields[i]
             r == IF f.name \in row.keys
                  THEN ValidateType(f.type, RawVal(row.val[f.name]), acc.seen)
                  ELSE MissingField(f, acc.seen)
         IN ValidateFields(fields, i + 1, row,
                [ errs |-> acc.errs \cup FieldErrors(f.name, r),
                  vals |-> acc.vals @@ (f.name :> r.val),
                  seen |-> r.seen ])

\* mutant: the model is declared without extra='forbid'
ExtraErrors_ignore(m, keys) == { }

\* extra='forbid': one extra_forbidden error for every keyword that names no field
ExtraErrors(m, keys) == { << k, "extra_forbidden" >> : k \in keys \ FieldNames(m) }

ModelInit(m, row, seenSet) ==
    LET r == ValidateFields(model_fields(m), 1, row,
                            [ errs |-> { }, vals |-> << >>, seen |-> seenSet ])
    IN [ errs |-> r.errs \cup ExtraErrors(m, row.keys), vals |-> r.vals, seen |-> r.seen ]

\* BaseCluster.dump_set_of_vals / the csv writer's rendering of one value:
\* the strings it can produce (a set is joined in its iteration order)
DumpVal(v) ==
    CASE v.kind = "none" -> { << >> }
      [] v.kind = "str" -> { v.s }
      [] OTHER -> IF v.m = { } THEN { << >> } ELSE { Join(p) : p \in Orderings(v.m) }

\* the lines writer.writerow(clus.model_dump()) can write: DictWriter takes one
\* cell per name of its fieldnames, in that order, from the dumped dict (None
\* is written as the empty cell)
RECURSIVE DumpFrom(_, _, _)
DumpFrom(cols, vals, i) ==
    IF i > Len(cols) THEN { << >> }
    ELSE { << c >> \o rest : c \in DumpVal(vals[cols[i]]),
                             rest \in DumpFrom(cols, vals, i + 1) }

DumpRows(cols, vals) == DumpFrom(cols, vals, 1)

\* ------------------------------------------------------------ the inputs
LongName == [ i \in 1..(MaxLength + 1) |-> "a" ]

\* the cells a column of the source CSV holds in the runs explored
CellVals(col) ==
    CASE col = "cluster_name" -> { << >>, << "a" >>, << " ", "A" >>, << "b" >>, LongName }
      [] col = "cluster_group" -> { << >>, << "g" >> }
      [] col = "cluster_tags" -> { << >>, << "t" >> }
      [] col = "platform_repository_sync_interval" -> { << "5", "m" >>, << "x" >> }
      [] col = "workload_repository_sync_interval" -> { << "1", "0", "s" >> }
      [] col \in { "platform_repository_branch", "workload_repository_branch" } -> { << >> }
      [] OTHER -> { << "r" >> }

RECURSIVE CellsFrom(_, _)
CellsFrom(header, i) ==
    IF i > Len(header) THEN { << >> }
    ELSE { << c >> \o rest : c \in CellVals(header[i]), rest \in CellsFrom(header, i + 1) }

\* the cells of the records that come one cell short or with one cell too many
ShapeVals(col) ==
    CASE col = "cluster_name" -> { << "a" >>, << "b" >> }
      [] col = "cluster_group" -> { << "g" >> }
      [] col = "cluster_tags" -> { << "t" >> }
      [] col = "platform_repository_sync_interval" -> { << "5", "m" >> }
      [] OTHER -> CellVals(col)

RECURSIVE ShapeCellsFrom(_, _)
ShapeCellsFrom(header, i) ==
    IF i > Len(header) THEN { << >> }
    ELSE { << c >> \o rest : c \in ShapeVals(header[i]),
                             rest \in ShapeCellsFrom(header, i + 1) }

\* the records the reader can deliver under a header: one cell per column,
\* one cell short, or one cell too many
Records(header) ==
    CellsFrom(header, 1)
        \cup { SubSeq(c, 1, Len(c) - 1) : c \in ShapeCellsFrom(header, 1) }
        \cup { Append(c, << "z" >>) : c \in ShapeCellsFrom(header, 1) }

Names(fields) == [ i \in 1..Len(fields) |-> fields[i].name ]

Without(seq, drop) == SelectSeq(seq, LAMBDA x : x \notin drop)

\* the header lines explored for a model
Headers(m) ==
    IF m = "cluster_registry"
    THEN { Names(ClusterRegistryModel),
           Without(Names(ClusterRegistryModel),
                   { "platform_repository_sync_interval", "platform_repository_branch",
                     "workload_repository_sync_interval", "workload_repository_branch" }),
           Without(Names(ClusterRegistryModel), { "workload_repository", "workload_repository_branch" }) }
    ELSE { Names(BaseCluster),
           Without(Names(BaseCluster), { "cluster_name" }),
           Append(Names(BaseCluster), "extra_col"),
           << "cluster_tags", "cluster_name", "cluster_group" >> }

\* the -m arguments explored: none, a loadable module, and the three ways
\* _load_model_dynamic fails
ValidatorModules ==
    { "", "models/cluster_registry.py", "no_such_module", "module_without_SourceOfTruthModel",
      "module_whose_SourceOfTruthModel_is_not_a_class" }

\* ------------------------------------------------------------- the state
VARIABLES
    seen,              \* the set `seen` the closure unique() made at import
    sessions,          \* CLI.run calls started in this process
    outExists,         \* the output path names a file
    outFile,           \* the lines of that file
    validator_module,  \* CLI._validator_module ("" is None)
    output,            \* CLI._output is set
    model,             \* CLI._model
    in_fp,             \* CLI._in_fp: "none", "open", "closed"
    fieldnames,        \* CLI._reader.fieldnames
    out_fp,            \* CLI._out_fp: "None", "open", "closed"
    writer,            \* CLI._writer is set
    error,             \* run's local `error`
    pc,                \* where run stands
    ret,               \* << >>, or << c >> once run has returned c
    exc,               \* the exception that left run, "" if none
    log,               \* lines logged in this run, counted by kind
    hdrDiags,          \* << level, field >> of _validate_csv_fields' per-field lines
    hdr,               \* how reading the header line ended
    last,              \* what the last next(self._reader) did
    rowsRead,          \* rows the reader has delivered in this run
    written,           \* rows writer.writerow has written in this run
    calls,             \* this run's calls of unique().nested: value, raised or not
    oper,              \* the setup/operational errors met in this run
    outPre,            \* the output path named a file when the run began
    call,              \* the method or function last called on its own, "" if none
    arg,               \* the arguments of that call
    res,               \* what that call returned, raised and logged
    reader,            \* a csv.DictReader read on its own: line_num, and the lines
                       \* (blank ones, then its own) each record it returned took
    cited              \* the row diagnostics logged for its rows: row, line cited

vars ==
    << seen, sessions, outExists, outFile, validator_module, output, model, in_fp,
       fieldnames, out_fp, writer, error, pc, ret, exc, log, hdrDiags, hdr, last,
       rowsRead, written, calls, oper, outPre, call, arg, res,
       reader, cited >>

\* the record of a call made on its own, outside a run
callVars == << call, arg, res >>

NoCall == [ none |-> TRUE ]

\* the reader whose rows' line numbers are followed
readerVars == << reader, cited >>

Kinds ==
    { "model_load", "source_open", "missing_names", "unicode_header", "required_missing",
      "optional_missing", "output_open", "csv_parse", "row_error", "not_unique",
      "malformed" }

EmptyLog == [ k \in Kinds |-> 0 ]

Logged(l, kind, n) == [ l EXCEPT ![kind] = @ + n ]

\* lines at WARNING level; every other kind is logged at ERROR level
Warnings(l) == l["optional_missing"]
\* "not_unique" lines are among the "row_error" lines
Errors(l) ==
    l["model_load"] + l["source_open"] + l["missing_names"] + l["unicode_header"]
    + l["required_missing"] + l["output_open"] + l["csv_parse"] + l["row_error"]
    + l["malformed"]

\* a line of the output file: the names of the columns its cells stand for, the
\* cells, and n, the position among the rows read of the row it was made from
\* (0 for a line made from no row)
Line(kind, cols, cells, n) == [ kind |-> kind, cols |-> cols, cells |-> cells, n |-> n ]

\* ------------------------------------------------------- the CLI's methods
\* _load_model_dynamic with get_validator_module: the model, or RuntimeError
load_model_dynamic(vm) ==
    CASE vm = "" -> "BaseCluster"
      [] vm = "models/cluster_registry.py" -> "cluster_registry"
      [] OTHER -> "RuntimeError"

\* mutant: the check for missing field names left out
NoFieldNames_unchecked(names) == FALSE

\* _validate_csv_fields: `not self._reader.fieldnames` (None or an empty list)
NoFieldNames(names) == names = << >>

\* _validate_csv_fields: the per-field lines it logs for a non-empty header
validate_csv_fields_diags(m, names) ==
    { << IF model_fields(m)[i].required THEN "ERROR" ELSE "WARNING",
         model_fields(m)[i].name >> :
        i \in { j \in 1..Len(model_fields(m)) : model_fields(m)[j].name \notin Range(names) } }

\* mutant: every absent field sets validation_error, is_required() ignored
validate_csv_fields_any(m, names) ==
    \E i \in 1..Len(model_fields(m)) : model_fields(m)[i].name \notin Range(names)

\* _validate_csv_fields: its return value, validation_error
validate_csv_fields(m, names) ==
    \E i \in 1..Len(model_fields(m)) :
        model_fields(m)[i].name \notin Range(names) /\ model_fields(m)[i].required

\* mutant: the closure's seen keeps a name only when the whole row validated
validate_csv_row_commit(m, row, seenSet) ==
    IF row.rest
    THEN [ outcome |-> IF "cluster_name" \in row.keys THEN "TypeError" ELSE "KeyError",
           errs |-> { }, vals |-> << >>, seen |-> seenSet ]
    ELSE LET r == ModelInit(m, row, seenSet)
         IN [ outcome |-> IF r.errs = { } THEN "ok" ELSE "ValidationError",
              errs |-> r.errs, vals |-> r.vals,
              seen |-> IF r.errs = { } THEN r.seen ELSE seenSet ]

\* _validate_csv_row: "ok" with the model's values, "ValidationError" with
\* pydantic's errors, "TypeError" for keywords that are not strings (the key
\* None of a record with too many cells), or "KeyError" when the TypeError
\* handler's row['cluster_name'] finds no such key
validate_csv_row(m, row, seenSet) ==
    IF row.rest
    THEN [ outcome |-> IF "cluster_name" \in row.keys THEN "TypeError" ELSE "KeyError",
           errs |-> { }, vals |-> << >>, seen |-> seenSet ]
    ELSE LET r == ModelInit(m, row, seenSet)
         IN [ outcome |-> IF r.errs = { } THEN "ok" ELSE "ValidationError",
              errs |-> r.errs, vals |-> r.vals, seen |-> r.seen ]

\* mutant: a row that failed pydantic's validation is written all the same
Writes_invalid(outcome, w) == w /\ outcome \in { "ok", "ValidationError" }

\* run, lines 265-272: whether the row is handed to writer.writerow, given what
\* _validate_csv_row made of it (row_error is set for every outcome but "ok")
Writes(outcome, w) == w /\ outcome = "ok"

\* mutant: the writer is given the reader's field names
WriterFieldNames_reader(m, names) == names

\* _setup_csv_writer: the fieldnames the DictWriter is made with,
\* self._model.model_fields.keys()
WriterFieldNames(m, names) == Names(model_fields(m))

\* run, lines 281-293: the code returned once the loop is left
RunCode(err) == IF err THEN -1 ELSE 0

\* mutant: the incomplete output file is never deleted
RemovesOutput_never(err, outfp) == FALSE

\* run, lines 281-289: whether the output file is deleted
RemovesOutput(err, outfp) == err /\ outfp # "None"

\* the calls of unique().nested one row validation made, read off its result
NestedCalls(row, r, seenSet) ==
    IF << "cluster_name", "not_unique" >> \in r.errs
    THEN << [ v |-> Lower(Strip(row.val["cluster_name"])), raised |-> TRUE ] >>
    ELSE IF r.seen # seenSet
    THEN << [ v |-> CHOOSE x \in r.seen \ seenSet : TRUE, raised |-> FALSE ] >>
    ELSE << >>

Return(c) == pc' = "returned" /\ ret' = << c >>

\* ---------------------------------------------------------------- actions
Init ==
    /\ seen = { }
    /\ sessions = 0
    /\ outExists = FALSE
    /\ outFile = << >>
    /\ validator_module = ""
    /\ output = FALSE
    /\ model = "unset"
    /\ in_fp = "none"
    /\ fieldnames = << >>
    /\ out_fp = "None"
    /\ writer = FALSE
    /\ error = FALSE
    /\ pc = "idle"
    /\ ret = << >>
    /\ exc = ""
    /\ log = EmptyLog
    /\ hdrDiags = { }
    /\ hdr = "unread"
    /\ last = ""
    /\ rowsRead = 0
    /\ written = 0
    /\ calls = << >>
    /\ oper = { }
    /\ outPre = FALSE
    /\ call = ""
    /\ arg = NoCall
    /\ res = NoCall
    /\ reader = [ line_num |-> 0, records |-> << >> ]
    /\ cited = << >>

\* main(): CLI.__init__ for a new run, in the process that imported the model
NewCLI ==
    /\ pc \in { "idle", "returned" }
    /\ sessions < MaxSessions
    /\ \E vm \in ValidatorModules, o \in BOOLEAN :
         \E pre \in IF o THEN BOOLEAN ELSE { FALSE } :
            /\ validator_module' = vm
            /\ output' = o
            /\ outPre' = pre
            /\ outExists' = pre
            /\ outFile' = IF pre THEN << Line("stale", << >>, << >>, 0) >> ELSE << >>
    /\ sessions' = sessions + 1
    /\ model' = "unset"
    /\ in_fp' = "none"
    /\ fieldnames' = << >>
    /\ out_fp' = "None"
    /\ writer' = FALSE
    /\ error' = FALSE
    /\ pc' = "load_model"
    /\ ret' = << >>
    /\ exc' = ""
    /\ log' = EmptyLog
    /\ hdrDiags' = { }
    /\ hdr' = "unread"
    /\ last' = ""
    /\ rowsRead' = 0
    /\ written' = 0
    /\ calls' = << >>
    /\ oper' = { }
    /\ UNCHANGED seen
    /\ UNCHANGED << callVars, readerVars >>

\* run, lines 213-219
LoadModel ==
    /\ pc = "load_model"
    /\ IF load_model_dynamic(validator_module) = "RuntimeError"
       THEN /\ log' = Logged(log, "model_load", 1)
            /\ oper' = oper \cup { "model_load" }
            /\ Return(1)
            /\ UNCHANGED model
       ELSE /\ model' = load_model_dynamic(validator_module)
            /\ pc' = "open_source"
            /\ UNCHANGED << log, oper, ret >>
    /\ UNCHANGED << seen, sessions, outExists, outFile, validator_module, output, in_fp,
                    fieldnames, out_fp, writer, error, exc, hdrDiags, hdr, last,
                    rowsRead, written, calls, outPre >>
    /\ UNCHANGED << callVars, readerVars >>

\* run, lines 222-231
OpenSource ==
    /\ pc = "open_source"
    /\ \E ok \in BOOLEAN :
         IF ok
         THEN /\ in_fp' = "open"
              /\ pc' = "validate_fields"
              /\ UNCHANGED << log, oper, ret >>
         ELSE /\ log' = Logged(log, "source_open", 1)
              /\ oper' = oper \cup { "source_open" }
              /\ Return(1)
              /\ UNCHANGED in_fp
    /\ UNCHANGED << seen, sessions, outExists, outFile, validator_module, output, model,
                    fieldnames, out_fp, writer, error, exc, hdrDiags, hdr, last,
                    rowsRead, written, calls, outPre >>
    /\ UNCHANGED << callVars, readerVars >>

\* run, lines 233-236, with _validate_csv_fields, when the reader yields its
\* field names: the names of the header line, or none (empty input)
ValidateCsvFields ==
    /\ pc = "validate_fields"
    /\ \E h \in Headers(model) \cup { << >> } :
         /\ fieldnames' = h
         /\ IF NoFieldNames(h)
            THEN /\ log' = Logged(log, "missing_names", 1)
                 /\ oper' = oper \cup { "empty_header" }
                 /\ Return(1)
                 /\ UNCHANGED << hdrDiags, error >>
            ELSE /\ hdrDiags' = validate_csv_fields_diags(model, h)
                 /\ error' = validate_csv_fields(model, h)
                 /\ log' = Logged(Logged(log, "required_missing",
                                         Cardinality({ d \in validate_csv_fields_diags(model, h) :
                                                         d[1] = "ERROR" })),
                                  "optional_missing",
                                  Cardinality({ d \in validate_csv_fields_diags(model, h) :
                                                  d[1] = "WARNING" }))
                 /\ pc' = "setup_writer"
                 /\ UNCHANGED << oper, ret >>
    /\ hdr' = "read"
    /\ UNCHANGED << seen, sessions, outExists, outFile, validator_module, output, model,
                    in_fp, out_fp, writer, exc, last, rowsRead, written, calls, outPre >>
    /\ UNCHANGED << callVars, readerVars >>

\* run, lines 233-236: decoding the header line raises UnicodeDecodeError, which
\* _validate_csv_fields turns into RuntimeError
ValidateCsvFieldsUnicode ==
    /\ pc = "validate_fields"
    /\ hdr' = "UnicodeDecodeError"
    /\ log' = Logged(log, "unicode_header", 1)
    /\ oper' = oper \cup { "encoding" }
    /\ Return(1)
    /\ UNCHANGED << seen, sessions, outExists, outFile, validator_module, output, model,
                    in_fp, fieldnames, out_fp, writer, error, exc, hdrDiags, last,
                    rowsRead, written, calls, outPre >>
    /\ UNCHANGED << callVars, readerVars >>

\* run, lines 233-236: the strict reader raises csv.Error on the header line;
\* neither _validate_csv_fields nor run catches it
ValidateCsvFieldsCsvError ==
    /\ pc = "validate_fields"
    /\ hdr' = "csv.Error"
    /\ pc' = "raised"
    /\ exc' = "csv.Error"
    /\ UNCHANGED << seen, sessions, outExists, outFile, validator_module, output, model,
                    in_fp, fieldnames, out_fp, writer, error, ret, log, hdrDiags, last,
                    rowsRead, written, calls, oper, outPre >>
    /\ UNCHANGED << callVars, readerVars >>

\* run, lines 239-242, with _setup_csv_writer
SetupCsvWriter ==
    /\ pc = "setup_writer"
    /\ IF ~output
       THEN /\ pc' = "loop"
            /\ UNCHANGED << out_fp, writer, outExists, outFile, log, oper, ret >>
       ELSE \E ok \in BOOLEAN :
              IF ok
              THEN /\ out_fp' = "open"
                   /\ writer' = TRUE
                   /\ outExists' = TRUE
                   /\ outFile' = << Line("header", WriterFieldNames(model, fieldnames),
                                          WriterFieldNames(model, fieldnames), 0) >>
                   /\ pc' = "loop"
                   /\ UNCHANGED << log, oper, ret >>
              ELSE /\ log' = Logged(log, "output_open", 1)
                   /\ oper' = oper \cup { "output_open" }
                   /\ Return(1)
                   /\ UNCHANGED << out_fp, writer, outExists, outFile >>
    /\ UNCHANGED << seen, sessions, validator_module, output, model, in_fp, fieldnames,
                    error, exc, hdrDiags, hdr, last, rowsRead, written, calls, outPre >>
    /\ UNCHANGED << callVars, readerVars >>

\* run, lines 244-272: one pass of the loop in which the reader delivers a
\* record, with _validate_csv_row and the write of a valid row
NextRow ==
    /\ pc = "loop"
    /\ rowsRead < MaxRows
    /\ \E cells \in Records(fieldnames) :
         \E r \in { validate_csv_row(model, DictRow(fieldnames, cells), seen) } :
            /\ seen' = r.seen
            /\ calls' = calls \o NestedCalls(DictRow(fieldnames, cells), r, seen)
            /\ IF r.outcome = "KeyError"
               THEN /\ pc' = "raised"
                    /\ exc' = "KeyError"
                    /\ UNCHANGED << error, log >>
               ELSE /\ error' = (error \/ r.outcome # "ok")
                    /\ log' = CASE r.outcome = "TypeError" -> Logged(log, "malformed", 1)
                                [] r.outcome = "ValidationError" ->
                                     Logged(Logged(log, "row_error", Cardinality(r.errs)),
                                            "not_unique",
                                            Cardinality({ e \in r.errs : e[2] = "not_unique" }))
                                [] OTHER -> log
                    /\ UNCHANGED << pc, exc >>
            /\ IF Writes(r.outcome, writer)
               THEN /\ \E cs \in DumpRows(WriterFieldNames(model, fieldnames), r.vals) :
                          outFile' = Append(outFile,
                              Line("row", WriterFieldNames(model, fieldnames), cs,
                                   rowsRead + 1))
                    /\ written' = written + 1
               ELSE UNCHANGED << outFile, written >>
    /\ rowsRead' = rowsRead + 1
    /\ last' = "row"
    /\ UNCHANGED << sessions, outExists, validator_module, output, model, in_fp,
                    fieldnames, out_fp, writer, ret, hdrDiags, hdr, oper, outPre >>
    /\ UNCHANGED << callVars, readerVars >>

\* run, lines 248-253: next(self._reader) raises csv.Error
NextCsvError ==
    /\ pc = "loop"
    /\ error' = TRUE
    /\ log' = Logged(log, "csv_parse", 1)
    /\ last' = "csv.Error"
    /\ pc' = "finish"
    /\ UNCHANGED << seen, sessions, outExists, outFile, validator_module, output, model,
                    in_fp, fieldnames, out_fp, writer, ret, exc, hdrDiags, hdr, rowsRead,
                    written, calls, oper, outPre >>
    /\ UNCHANGED << callVars, readerVars >>

\* run, lines 254-257: next(self._reader) raises StopIteration
NextStop ==
    /\ pc = "loop"
    /\ last' = "stop"
    /\ pc' = "finish"
    /\ UNCHANGED << seen, sessions, outExists, outFile, validator_module, output, model,
                    in_fp, fieldnames, out_fp, writer, error, ret, exc, log, hdrDiags, hdr,
                    rowsRead, written, calls, oper, outPre >>
    /\ UNCHANGED << callVars, readerVars >>

\* run, lines 246-257: next(self._reader) raises UnicodeDecodeError (bytes past
\* the first decoded chunk that are no UTF-8); it is no csv.Error and no
\* StopIteration, so it leaves run
NextUnicodeDecodeError ==
    /\ pc = "loop"
    /\ last' = "UnicodeDecodeError"
    /\ oper' = oper \cup { "encoding" }
    /\ pc' = "raised"
    /\ exc' = "UnicodeDecodeError"
    /\ UNCHANGED << seen, sessions, outExists, outFile, validator_module, output, model,
                    in_fp, fieldnames, out_fp, writer, error, ret, log, hdrDiags, hdr,
                    rowsRead, written, calls, outPre >>
    /\ UNCHANGED << callVars, readerVars >>

\* run, lines 274-293
Finish ==
    /\ pc = "finish"
    /\ in_fp' = "closed"
    /\ out_fp' = IF out_fp = "None" THEN "None" ELSE "closed"
    /\ IF RemovesOutput(error, out_fp)
       THEN outExists' = FALSE /\ outFile' = << >>
       ELSE UNCHANGED << outExists, outFile >>
    /\ Return(RunCode(error))
    /\ UNCHANGED << seen, sessions, validator_module, output, model, fieldnames, writer,
                    error, exc, log, hdrDiags, hdr, last, rowsRead, written, calls, oper,
                    outPre >>
    /\ UNCHANGED << callVars, readerVars >>

Next ==
    \/ NewCLI
    \/ LoadModel
    \/ OpenSource
    \/ ValidateCsvFields
    \/ ValidateCsvFieldsUnicode
    \/ ValidateCsvFieldsCsvError
    \/ SetupCsvWriter
    \/ NextRow
    \/ NextCsvError
    \/ NextStop
    \/ NextUnicodeDecodeError
    \/ Finish

Spec == Init /\ [][Next]_vars

\* ------------------------------------------------ calls made on their own
\* the variables of a run, which a call made outside a run leaves alone
runVars ==
    << sessions, outExists, outFile, validator_module, output, model, in_fp, fieldnames,
       out_fp, writer, error, pc, ret, exc, log, hdrDiags, hdr, last, rowsRead, written,
       calls, oper, outPre >>

\* the models self._model can be
Models == { "BaseCluster", "cluster_registry", "NewBase" }

\* the values self._reader.line_num has when a row is validated
LineNums == 2..(MaxRows + 1)

\* the headers under which single rows are validated: those of the runs, and
\* for BaseCluster one with two columns the schema lacks, one with such a
\* column and no cluster_name, and one without cluster_tags
RowHeaders(m) ==
    IF m = "cluster_registry" THEN Headers(m)
    ELSE IF m = "NewBase" THEN { Names(NewBase) }
    ELSE Headers(m) \cup
         { Names(BaseCluster) \o << "extra_col", "other_col" >>,
           << "cluster_group", "cluster_tags", "extra_col" >>,
           << "cluster_name", "cluster_group" >> }

\* the cells of the rows validated against NewBase: a name, a group, and tags
\* of up to MaxTokens tokens
TagTokens == { << "l", "a", "b" >>, << "x" >>, << "y" >> }

RECURSIVE TokenSeqs(_)
TokenSeqs(n) ==
    IF n = 0 THEN { << >> }
    ELSE TokenSeqs(n - 1) \cup
         { Append(q, t) : q \in { x \in TokenSeqs(n - 1) : Len(x) = n - 1 }, t \in TagTokens }

NewBaseRecords ==
    { << n, g, Join(q) >> : n \in { << >>, << "a" >> },
                            g \in { << "u", "s" >>, << "g" >> },
                            q \in TokenSeqs(MaxTokens) }

\* the records validated on their own under a header of model m
RowRecords(m, header) == IF m = "NewBase" THEN NewBaseRecords ELSE Records(header)

\* _validate_csv_row: the lines it logs at ERROR level, one per pydantic error
\* (column loc[0]) or the one line of the TypeError handler
row_lines(r, line_num) ==
    CASE r.outcome = "ValidationError" ->
             { [ line |-> line_num, col |-> e[1], type |-> e[2],
                 item |-> IF Len(e) > 2 THEN e[3] ELSE None ] : e \in r.errs }
      [] r.outcome = "TypeError" ->
             { [ line |-> line_num, col |-> "", type |-> "malformed", item |-> None ] }
      [] OTHER -> { }

\* the values passed to unique().nested on its own
NestedArgs == { << "a" >>, << "b" >> }

\* unique().nested(v), the closure ClusterName holds, called on its own
CallNested ==
    /\ call \in { "", "nested" }
    /\ \E v \in NestedArgs :
         /\ call' = "nested"
         /\ arg' = [ v |-> v, seen |-> seen ]
         /\ res' = [ raised |-> nested_raises(v, seen) ]
         /\ seen' = nested_seen(v, seen)
    /\ UNCHANGED << runVars, readerVars >>

\* what a call of _validate_csv_row leaves for the row after it: whether the
\* row was rejected, and the closure's seen as it was before the call
NoRowBefore == [ called |-> FALSE, row_error |-> FALSE, seen |-> { } ]

\* one call of _validate_csv_row(row) on a CLI whose model is m, for the row
\* the reader makes of the cells under the header at line ln
RowCall(m, h, c, ln, prev) ==
    \E r \in { validate_csv_row(m, DictRow(h, c), seen) } :
       /\ call' = "_validate_csv_row"
       /\ arg' = [ model |-> m, header |-> h, cells |-> c, line_num |-> ln,
                   seen |-> seen, prev |-> prev ]
       /\ res' = [ raised |-> IF r.outcome = "KeyError" THEN "KeyError" ELSE "",
                   row_error |-> r.outcome \notin { "ok", "KeyError" },
                   clus |-> r.outcome = "ok",
                   errs |-> r.errs,
                   vals |-> r.vals,
                   lines |-> row_lines(r, ln) ]
       /\ seen' = r.seen

\* _validate_csv_row(row) for the first row taken from a source; the closure's
\* seen is the process's
CallValidateCsvRow ==
    /\ call \in { "", "nested" }
    /\ \E m \in Models, ln \in LineNums :
         \E h \in RowHeaders(m) :
            \E c \in RowRecords(m, h) :
               RowCall(m, h, c, ln, NoRowBefore)
    /\ UNCHANGED << runVars, readerVars >>

\* the loop of run calls _validate_csv_row again for the next row of the same
\* source, unless the call before raised
CallValidateCsvRowNext ==
    /\ call = "_validate_csv_row"
    /\ ~arg.prev.called
    /\ res.raised = ""
    /\ \E ln \in LineNums :
         /\ ln > arg.line_num
         /\ \E c \in RowRecords(arg.model, arg.header) :
               RowCall(arg.model, arg.header, c, ln,
                       [ called |-> TRUE, row_error |-> res.row_error, seen |-> arg.seen ])
    /\ UNCHANGED << runVars, readerVars >>

\* the strings passed to the coercion functions on their own: all strings of
\* up to MaxLen characters over a letter, a blank and the comma, and the
\* strings ' a, b ,,a' and 'a, ,a'
CoerceAlphabet == { "a", " ", "," }

RECURSIVE StringsUpTo(_)
StringsUpTo(n) ==
    IF n = 0 THEN { << >> }
    ELSE StringsUpTo(n - 1) \cup
         { Append(x, c) : x \in { y \in StringsUpTo(n - 1) : Len(y) = n - 1 },
                          c \in CoerceAlphabet }

CoerceInputs ==
    StringsUpTo(MaxLen) \cup { << " ", "a", ",", " ", "b", " ", ",", ",", "a" >>,
                               << "a", ",", " ", ",", "a" >> }

\* coerce_splt_commas_rtn_set_strs(s) called on its own
CallCoerceSplit ==
    /\ call = ""
    /\ \E s \in CoerceInputs :
         /\ call' = "coerce_splt_commas_rtn_set_strs"
         /\ arg' = [ s |-> s ]
         /\ res' = [ val |-> coerce_splt_commas_rtn_set_strs(StrVal(s)) ]
    /\ UNCHANGED << seen, runVars, readerVars >>

\* the field types of BaseCluster and of models/cluster_registry.py
FieldTypes ==
    { "ClusterName", "str", "ClusterTags", "StrippedStr", "OptionalStrippedStr",
      "SyncInterval" }

\* the raw cells a field type is applied to on its own
FieldInputs ==
    CoerceInputs \cup { << " ", "A" >>, << "5", "m" >>, << " ", "5", "m", " " >>, LongName }

\* a field type's validation applied to a raw cell, as pydantic applies it to
\* the field of a row; the closure's seen is the process's
CallFieldType ==
    /\ call \in { "", "nested" }
    /\ \E t \in FieldTypes, raw \in FieldInputs :
         \E r \in { ValidateType(t, StrVal(raw), seen) } :
            /\ call' = "field_type"
            /\ arg' = [ type |-> t, raw |-> raw, seen |-> seen ]
            /\ res' = [ err |-> r.err, val |-> r.val ]
            /\ seen' = r.seen
    /\ UNCHANGED << runVars, readerVars >>

\* the same field type applied, later in the same process, to the text its
\* first result is written as (model_dump with dump_set_of_vals, then the csv
\* writer), as when the output file of a run is validated in turn
CallFieldTypeAgain ==
    /\ call = "field_type"
    /\ res.err = ""
    /\ \E text \in DumpVal(res.val) :
         \E r \in { ValidateType(arg.type, StrVal(text), seen) } :
            /\ call' = "field_type_again"
            /\ arg' = [ type |-> arg.type, raw |-> arg.raw, first |-> res.val,
                        text |-> text, seen |-> seen ]
            /\ res' = [ err |-> r.err, val |-> r.val ]
            /\ seen' = r.seen
    /\ UNCHANGED << runVars, readerVars >>

RowNext ==
    \/ CallNested
    \/ CallValidateCsvRow
    \/ CallValidateCsvRowNext
    \/ CallCoerceSplit
    \/ CallFieldType
    \/ CallFieldTypeAgain

\* single calls of the row validator and of the field types' functions
RowSpec == Init /\ [][RowNext]_vars

\* ---------------------------------------------- the reader's line numbers
\* mutant: line_num counts the records returned
LineNumAfter_records(n, blank, span) == n + 1

\* csv.DictReader: line_num after a record is returned is the underlying
\* reader's line_num, the count of physical lines read: the blank lines
\* skipped in front of the record and the lines of the record itself
LineNumAfter(n, blank, span) == n + blank + span

\* _validate_csv_fields: self._reader.fieldnames reads the first record, which
\* takes one line or, with line breaks in quoted names, several
ReaderFieldnames ==
    /\ reader.records = << >>
    /\ \E span \in 1..MaxSpan :
         reader' = [ line_num |-> LineNumAfter(reader.line_num, 0, span),
                     records |-> << [ blank |-> 0, span |-> span ] >> ]
    /\ UNCHANGED << seen, runVars, callVars, cited >>

\* run, lines 244-263, with the lines 395-409 of _validate_csv_row: next(self._reader)
\* returns a data row, skipping the blank lines in front of it, and the row's
\* diagnostics, if it gets any, cite self._reader.line_num
ReaderNextRow ==
    /\ reader.records # << >>
    /\ Len(reader.records) <= MaxRows
    /\ \E blank \in 0..MaxBlank, span \in 1..MaxSpan,
          diag \in { "none", "ValidationError", "TypeError" } :
         /\ reader' = [ line_num |-> LineNumAfter(reader.line_num, blank, span),
                        records |-> Append(reader.records, [ blank |-> blank, span |-> span ]) ]
         /\ cited' = IF diag = "none" THEN cited
                     ELSE Append(cited, [ row |-> Len(reader.records),
                                          line |-> LineNumAfter(reader.line_num, blank, span),
                                          diag |-> diag ])
    /\ UNCHANGED << seen, runVars, callVars >>

ReaderNext ==
    \/ ReaderFieldnames
    \/ ReaderNextRow

\* the line numbers the reader gives the rows of a source file
ReaderSpec == Init /\ [][ReaderNext]_vars

\* ================================================================ claims
Terminal == pc \in { "returned", "raised" }

\* fields of model m whose name the header does not carry
Absent(m, names) ==
    { i \in 1..Len(model_fields(m)) : model_fields(m)[i].name \notin Range(names) }

RequiredAbsent(m, names) == { i \in Absent(m, names) : model_fields(m)[i].required }

\* a header with field names has been read in this run
HeaderChecked == hdr = "read" /\ fieldnames # << >>

\* C1: a run given an output path that named no file beforehand, once it has
\* returned a code, leaves the output file in place exactly when the code is 0
C1_OutputKeptIffZero ==
    (pc = "returned" /\ output /\ ~outPre) => (outExists <=> ret = << 0 >>)

\* C1 witness: a run returned -1 and deleted an output file it had written rows to
C1_Witness ==
    /\ pc = "returned" /\ ret = << -1 >>
    /\ output /\ ~outPre
    /\ written > 0
    /\ ~outExists

\* C2: when the run is over, it has returned 0 exactly when the header check
\* reported no missing required field and every record validated without error,
\* 1 when a setup/operational error (model load, source or output open, empty
\* header, encoding error) occurred before or during processing, and -1 when
\* there was no such error and validation produced an error
C2_ExitCodes ==
    Terminal =>
        /\ ret = << 0 >> <=>
              /\ pc = "returned"
              /\ oper = { }
              /\ HeaderChecked /\ RequiredAbsent(model, fieldnames) = { }
              /\ last = "stop"
              /\ log["row_error"] = 0 /\ log["malformed"] = 0
        /\ oper # { } => ret = << 1 >>
        /\ ( /\ oper = { }
             /\ HeaderChecked
             /\ \/ RequiredAbsent(model, fieldnames) # { }
                \/ log["row_error"] > 0
                \/ log["malformed"] > 0
                \/ last = "csv.Error" ) => ret = << -1 >>

\* C3: in one run, a call of the uniqueness check fails exactly when the same
\* value was passed to it earlier in that run, and the number of 'not unique'
\* errors is the number of calls minus the number of distinct values
C3_UniqueMonotone ==
    /\ \A i \in 1..Len(calls) :
           calls[i].raised <=> \E j \in 1..(i - 1) : calls[j].v = calls[i].v
    /\ log["not_unique"] = Len(calls) - Cardinality({ calls[i].v : i \in 1..Len(calls) })

\* C4: the set of seen values is empty when a run starts
C4_FreshTracker == pc = "load_model" => seen = { }

\* C5: when the header lacks a required field, the header check logs an ERROR
\* for each such field and sets the failed flag, and the run (stated for runs
\* whose output file, if asked for, could be opened) goes on to the rows and
\* ends with the code -1
C5_MissingRequiredFails ==
    (HeaderChecked /\ RequiredAbsent(model, fieldnames) # { }) =>
        /\ \A i \in RequiredAbsent(model, fieldnames) :
               << "ERROR", model_fields(model)[i].name >> \in hdrDiags
        /\ error
        /\ (Terminal /\ "output_open" \notin oper) => ret = << -1 >>

\* C6: a header that lacks only optional fields gets one WARNING per absent
\* field and no ERROR, leaves the failed flag unset, and a run that then reads
\* all its rows without error returns 0 and keeps the output file
C6_OptionalOnlyWarns ==
    (HeaderChecked /\ RequiredAbsent(model, fieldnames) = { }) =>
        /\ hdrDiags = { << "WARNING", model_fields(model)[i].name >> :
                          i \in Absent(model, fieldnames) }
        /\ Warnings(log) = Cardinality(Absent(model, fieldnames))
        /\ log["required_missing"] = 0
        /\ pc = "setup_writer" => (~error /\ Errors(log) = 0)
        /\ ( /\ pc = "returned" /\ last = "stop"
             /\ log["row_error"] = 0 /\ log["malformed"] = 0 ) =>
               (ret = << 0 >> /\ (output => outExists))

\* C6 witness: a header without the four optional columns, rows read, code 0,
\* output kept
C6_Witness ==
    /\ HeaderChecked
    /\ Cardinality(Absent(model, fieldnames)) = 4
    /\ RequiredAbsent(model, fieldnames) = { }
    /\ pc = "returned" /\ ret = << 0 >>
    /\ rowsRead > 0
    /\ output /\ outExists /\ written = rowsRead

\* C7: when the reader has no field names, the run logs the one 'missing CSV
\* field names' error and nothing else, reads no row, never opens the output
\* file, and returns 1
C7_EmptyHeaderAborts ==
    (hdr = "read" /\ fieldnames = << >>) =>
        /\ pc = "returned" /\ ret = << 1 >>
        /\ log["missing_names"] = 1 /\ Errors(log) = 1 /\ Warnings(log) = 0
        /\ hdrDiags = { }
        /\ rowsRead = 0
        /\ out_fp = "None" /\ ~writer /\ outExists = outPre

\* C7 witness: an empty header was read in a run that was given an output path
C7_Witness ==
    /\ hdr = "read" /\ fieldnames = << >>
    /\ output /\ ~outPre
    /\ pc = "returned"

\* C8: after the reader raised a framing error while fetching a row (csv.Error
\* or an encoding failure), the failed flag is set, the 'CSV parsing error'
\* line is logged, and the run goes on to return a code: no exception leaves it
C8_FramingFatal ==
    last \in { "csv.Error", "UnicodeDecodeError" } =>
        /\ error
        /\ log["csv_parse"] = 1
        /\ pc \in { "finish", "returned" }

\* C9: once the row loop has been left, the last call of the reader was the end
\* of input or a framing error: no row, valid or not, ends the loop
C9_LoopNotShortCircuited ==
    (pc \in { "finish", "returned", "raised" } /\ last # "") =>
        last \in { "stop", "csv.Error", "UnicodeDecodeError" }

\* C10: once the failed flag is set, the run (stated for runs whose output
\* file, if asked for, could be opened) ends with the code -1
C10_StickyFailed ==
    (error /\ Terminal /\ "output_open" \notin oper) => ret = << -1 >>

\* the output file holds the header line first and after it only lines made
\* from rows, in the order the rows were read
HeaderThenRows ==
    /\ outFile # << >>
    /\ outFile[1].kind = "header"
    /\ \A i \in 2..Len(outFile) :
           /\ outFile[i].kind = "row"
           /\ outFile[i].n \in 1..rowsRead
           /\ i > 2 => outFile[i - 1].n < outFile[i].n

\* a pass of the row loop in which the reader delivered a row
RowStep == pc = "loop" /\ rowsRead' = rowsRead + 1

\* the row of this pass produced an error: error lines were logged for it, or
\* its handling raised
RowFailed ==
    \/ log'["row_error"] > log["row_error"]
    \/ log'["malformed"] > log["malformed"]
    \/ pc' = "raised"

\* C16 (state part): once the writer is set up the file is the header line
\* followed by row lines in reading order, and when the run has returned 0 it
\* holds exactly one line per row read, the i-th made from the i-th row
C16_FileShape ==
    /\ writer /\ outExists => HeaderThenRows
    /\ (pc = "returned" /\ ret = << 0 >> /\ output) =>
           /\ outExists /\ HeaderThenRows
           /\ Len(outFile) = rowsRead + 1
           /\ \A i \in 1..rowsRead : outFile[i + 1].n = i

\* C16 (step part): a row that produced an error leaves the output file as it
\* was; a row that validated, when there is a writer, adds one line made from
\* it at the end of the file
C16_RowWrite ==
    RowStep =>
        /\ RowFailed => outFile' = outFile
        /\ (~RowFailed /\ writer) =>
               /\ Len(outFile') = Len(outFile) + 1
               /\ SubSeq(outFile', 1, Len(outFile)) = outFile
               /\ outFile'[Len(outFile')].kind = "row"
               /\ outFile'[Len(outFile')].n = rowsRead'

\* C16: with an output file asked for and the code 0, the output is the header
\* line once, before any row, then one line per input row in input order; in
\* any run a row that produced an error is never written, and the rows that
\* validate are written in the order read
C16_OutputRows == [](C16_FileShape) /\ [][C16_RowWrite]_vars

\* C16 witness: a run returned 0 with both rows of its input in the output
C16_Witness ==
    /\ pc = "returned" /\ ret = << 0 >> /\ output
    /\ rowsRead = MaxRows /\ Len(outFile) = MaxRows + 1

\* C17: the header line of the output and every row line carry one cell per
\* field of the schema, for the schema's field names in declaration order,
\* whatever the order of the columns in the input header
C17_SchemaOrder ==
    (writer /\ outExists) =>
        /\ outFile[1].kind = "header"
        /\ outFile[1].cells = Names(model_fields(model))
        /\ \A i \in 1..Len(outFile) :
               /\ outFile[i].cols = Names(model_fields(model))
               /\ Len(outFile[i].cells) = Len(model_fields(model))

\* C17 witness: a row was written from an input whose header names the
\* schema's fields in another order
C17_Witness ==
    /\ writer /\ outExists /\ written > 0
    /\ Range(fieldnames) = FieldNames(model)
    /\ fieldnames # Names(model_fields(model))

\* the columns of a header that name no field of model m
ExtraCols(m, names) == Range(names) \ FieldNames(m)

\* the row validator was called with a row the reader matched against the
\* header's names (no cell beyond the header)
RowValidated == call = "_validate_csv_row" /\ Len(arg.cells) <= Len(arg.header)

ArgRow == DictRow(arg.header, arg.cells)

\* what validating field f of the recorded call's row gives, taken by itself
FieldResult(f) ==
    IF f.name \in ArgRow.keys
    THEN ValidateType(f.type, RawVal(ArgRow.val[f.name]), arg.seen)
    ELSE IF f.required THEN Err("missing", arg.seen) ELSE Ok(NoneVal, arg.seen)

\* the schema fields that fail on the recorded call's row
FailingFields ==
    { i \in 1..Len(model_fields(arg.model)) : FieldResult(model_fields(arg.model)[i]).err # "" }

\* the error lines logged for schema field number i
FieldLines(i) == { l \in res.lines : l.col = model_fields(arg.model)[i].name }

\* C12 as claimed: every failing field of a row gets an error line, no other
\* field does, and no field gets more than one line, a set-valued field with
\* several invalid tokens included
C12_OneErrorPerField ==
    RowValidated =>
        \A i \in 1..Len(model_fields(arg.model)) :
            Cardinality(FieldLines(i)) = IF i \in FailingFields THEN 1 ELSE 0

\* C12 amended: every failing field of a row gets its error lines and no other
\* field gets any; a field gets one line, except that a set-valued field whose
\* members are validated gets one line for each of its members that is invalid
C12_ErrorsPerField ==
    RowValidated =>
        \A i \in 1..Len(model_fields(arg.model)) :
            Cardinality(FieldLines(i)) =
                IF i \notin FailingFields THEN 0
                ELSE IF FieldResult(model_fields(arg.model)[i]).items = { } THEN 1
                ELSE Cardinality(FieldResult(model_fields(arg.model)[i]).items)

\* C12 witness: three failing fields, one of them a set with two invalid
\* tokens: four lines
C12_Witness ==
    /\ RowValidated
    /\ Cardinality(FailingFields) = 3
    /\ Cardinality(res.lines) = 4

\* C13: a row with more cells than the header has columns is reported by one
\* 'malformed row' error line that carries the line number, the row counts as
\* failed, and the call raises nothing, under every header
C13_MalformedReported ==
    (call = "_validate_csv_row" /\ Len(arg.cells) > Len(arg.header)) =>
        /\ res.raised = ""
        /\ res.row_error
        /\ \E l \in res.lines : l.type = "malformed" /\ l.line = arg.line_num
        /\ Cardinality(res.lines) = 1

\* the required fields of the recorded call's model whose column the row has
\* with the empty string in it
EmptyRequired ==
    { i \in 1..Len(model_fields(arg.model)) :
        /\ model_fields(arg.model)[i].required
        /\ model_fields(arg.model)[i].name \in ArgRow.keys
        /\ ArgRow.val[model_fields(arg.model)[i].name] = << >> }

\* the field types that take the empty string for a value (str, StrippedStr) or
\* turn it into None (ClusterTags)
AdmitsEmpty(type) == type \in { "str", "StrippedStr", "ClusterTags" }

\* C14 as claimed: an empty string in a required field, plain str fields
\* included, gives exactly one error for the field, and the row gives no record
C14_EmptyRequiredFails ==
    RowValidated =>
        \A i \in EmptyRequired : Cardinality(FieldLines(i)) = 1 /\ ~res.clus

\* C14 amended: an empty string in a required field whose type does not admit
\* it (cluster_name, an enum, a set of an enum) gives exactly one error for the
\* field and no record; in a required field of type str or StrippedStr it is
\* the field's value, in cluster_tags it becomes None, and neither is an error
C14_EmptyByType ==
    RowValidated =>
        \A i \in EmptyRequired :
            IF AdmitsEmpty(model_fields(arg.model)[i].type)
            THEN /\ FieldLines(i) = { }
                 /\ res.vals[model_fields(arg.model)[i].name] \in { StrVal(<< >>), NoneVal }
            ELSE /\ Cardinality(FieldLines(i)) = 1
                 /\ ~res.clus /\ res.row_error

\* C14 witness: a BaseCluster row whose cluster_group is the empty string and
\* which has nothing else amiss was validated, and gave a record
C14_Witness ==
    /\ RowValidated
    /\ arg.model = "BaseCluster"
    /\ \E i \in EmptyRequired : model_fields(arg.model)[i].name = "cluster_group"
    /\ res.clus /\ res.lines = { }
    /\ res.vals["cluster_group"] = StrVal(<< >>)

\* C15: for a non-empty string the comma-splitting coercion returns a set whose
\* members are all non-empty and without blanks at either end, whitespace-only
\* tokens included; ' a, b ,,a' gives {'a', 'b'}
C15_SplitTrimmedNonEmpty ==
    (call = "coerce_splt_commas_rtn_set_strs" /\ arg.s # << >>) =>
        /\ res.val.kind = "set"
        /\ \A x \in res.val.m : x # << >> /\ Strip(x) = x
        /\ arg.s = << " ", "a", ",", " ", "b", " ", ",", ",", "a" >> =>
               res.val.m = { << "a" >>, << "b" >> }

\* the fields of the recorded call's model whose column the header lacks
AbsentFields ==
    { i \in 1..Len(model_fields(arg.model)) :
        model_fields(arg.model)[i].name \notin Range(arg.header) }

\* what field number i gives when its raw value is the empty string
EmptyResult(i) == ValidateType(model_fields(arg.model)[i].type, StrVal(<< >>), arg.seen)

\* C18 as claimed: a field whose column the header lacks is evaluated as if
\* its raw value were the empty string: the same error, or the same value
C18_MissingAsEmpty ==
    RowValidated =>
        \A i \in AbsentFields :
            /\ { l.type : l \in FieldLines(i) } = { EmptyResult(i).err } \ { "" }
            /\ res.vals[model_fields(arg.model)[i].name] = EmptyResult(i).val

\* C18 amended: a field whose column the header lacks is not evaluated at
\* all: a required field gets the one error 'Field required' and the row gives
\* no record, a field with a default gets None and no error
C18_MissingIsRequiredOrDefault ==
    RowValidated =>
        \A i \in AbsentFields :
            IF model_fields(arg.model)[i].required
            THEN /\ { l.type : l \in FieldLines(i) } = { "missing" }
                 /\ Cardinality(FieldLines(i)) = 1
                 /\ ~res.clus /\ res.row_error
            ELSE /\ FieldLines(i) = { }
                 /\ res.vals[model_fields(arg.model)[i].name] = NoneVal

\* C18 witness: a row under a header that lacks the required
\* workload_repository and the optional workload_repository_branch
C18_Witness ==
    /\ RowValidated
    /\ arg.model = "cluster_registry"
    /\ Cardinality(AbsentFields) = 2
    /\ \E i \in AbsentFields : model_fields(arg.model)[i].required
    /\ \E l \in res.lines : l.type = "missing" /\ l.col = "workload_repository"

\* C19: a field type applied a second time, to the written form of its first
\* result, gives that result again: no error, and the same value, for every
\* field type, the unique cluster name and sets with whitespace-only tokens
\* included
C19_CoercionIdempotent ==
    call = "field_type_again" => (res.err = "" /\ res.val = arg.first)

\* the physical lines of the first n records the reader returned (the header
\* is the first), blank lines skipped in front of them included
RECURSIVE LinesOf(_, _)
LinesOf(records, n) ==
    IF n = 0 THEN 0 ELSE LinesOf(records, n - 1) + records[n].blank + records[n].span

NamePasses ==
    /\ Len(arg.cells) <= Len(arg.header)
    /\ "cluster_name" \in ArgRow.keys
    /\ ArgRow.val["cluster_name"] # None
    /\ Len(Strip(ArgRow.val["cluster_name"])) >= MinLength
    /\ Len(Strip(ArgRow.val["cluster_name"])) <= MaxLength

\* the name the tracker holds for the recorded call's row
NormalName == Lower(Strip(ArgRow.val["cluster_name"]))

\* C21: after a call of the row validator the tracker holds the row's cluster
\* name as soon as the name passed its own checks, whether or not the row was
\* accepted, and holds nothing new otherwise (a malformed row included); a row
\* whose name the tracker already held is rejected as not unique, whether or
\* not a row with that name was ever accepted
C21_RecordedThoughRejected ==
    call = "_validate_csv_row" =>
        /\ seen = IF NamePasses THEN arg.seen \cup { NormalName } ELSE arg.seen
        /\ (NamePasses /\ NormalName \in arg.seen) =>
               /\ ~res.clus
               /\ \E l \in res.lines : l.col = "cluster_name" /\ l.type = "not_unique"

\* C21 witness: the first row of a source, the tracker empty, was rejected for
\* something other than its name; the next row carries the same name, has
\* nothing else wrong, and is rejected as not unique
C21_Witness ==
    /\ call = "_validate_csv_row"
    /\ arg.prev.called /\ arg.prev.row_error /\ arg.prev.seen = { }
    /\ NamePasses /\ arg.seen = { NormalName }
    /\ ~res.clus /\ res.row_error
    /\ Cardinality(res.lines) = 1
    /\ \E l \in res.lines : l.col = "cluster_name" /\ l.type = "not_unique"

\* the recorded call applied ClusterName to a raw cell
NameChecked == call = "field_type" /\ arg.type = "ClusterName"

\* the raw cell's trimmed length is within the bounds of ClusterName
LengthOk(raw) == Len(Strip(raw)) >= MinLength /\ Len(Strip(raw)) <= MaxLength

\* C22: ClusterName compares and records the trimmed, lower-cased name, never
\* the raw cell: a cell of an allowed length is 'not unique' exactly when its
\* normalized form is in the tracker, and that form is in the tracker
\* afterwards; a cell that fails the length check gets the length error, never
\* 'not unique', and leaves the tracker as it was, also when the same invalid
\* name comes again in the next row
C22_UniqueOnNormalized ==
    /\ NameChecked =>
          IF LengthOk(arg.raw)
          THEN /\ res.err = IF Lower(Strip(arg.raw)) \in arg.seen THEN "not_unique" ELSE ""
               /\ seen = arg.seen \cup { Lower(Strip(arg.raw)) }
          ELSE /\ res.err \in { "string_too_short", "string_too_long" }
               /\ seen = arg.seen
    /\ (RowValidated /\ "cluster_name" \in ArgRow.keys /\ ~NamePasses) =>
          /\ seen = arg.seen
          /\ \A l \in res.lines : l.type # "not_unique"
    /\ call # "" => \A n \in seen : n = Lower(Strip(n)) /\ LengthOk(n)

\* C22 witness: the raw cell ' A' is no member of the tracker, which holds 'a',
\* and is rejected as not unique
C22_Witness ==
    /\ NameChecked
    /\ arg.raw = << " ", "A" >>
    /\ arg.raw \notin arg.seen
    /\ arg.seen = { << "a" >> }
    /\ res.err = "not_unique"
    /\ seen = arg.seen

\* C23: run never ends by an exception: whenever it is over it has returned a
\* code among 0, 1 and -1, and once the row loop has been left toward the
\* return the reader's last call was a framing error or the end of input,
\* with one row consumed per pass before it
C23_RunReturnsCode ==
    /\ pc # "raised"
    /\ pc = "returned" => ret \in { << 0 >>, << 1 >>, << -1 >> }
    /\ (pc \in { "finish", "returned" } /\ last # "") =>
           /\ last \in { "stop", "csv.Error" }
           /\ rowsRead <= MaxRows

====
